---- MODULE Spec2Model ----
(***************************************************************************)
(* Account backup / restore orchestration of cli/account_command.go:       *)
(* actCmd.backupAction and actCmd.restoreAction.                           *)
(*                                                                         *)
(* Stream and directory entry names are small integers; their integer     *)
(* order stands for the filename order os.ReadDir sorts by.  A path        *)
(* root/name is the pair <<Root, name>>.                                   *)
(***************************************************************************)
EXTENDS Integers, Sequences, FiniteSets, TLC

\* Backup runs: the account holds at most this many streams.
MaxStreams == 2

\* Restore runs: the source root holds at most this many entries.
MaxEntries == 3

StreamNames == 1..MaxStreams
EntryNames == 1..MaxEntries

\* c.backupDirectory
Root == "root"

\* The error values the model distinguishes; "nil" is Go's nil error.
Errors == {"nil", "ErrMemoryStreamNotSupported", "other"}

\* What a name under the root can be on disk:
\*   none      nothing of that name
\*   file      a regular file
\*   dir       a directory without backup.json
\*   complete  a directory holding backup.json
\*   link      a symbolic link to a directory holding backup.json
Kinds == {"none", "file", "dir", "complete", "link"}

VARIABLES
    pc,                \* position in the running action handler
    result,            \* "none" while running; "ok" (return nil), "error" (return err), "fatal" (fisk exit)
    msg,               \* [text, name]: the error returned or the fatal message printed
    err,               \* the handler's function-scope err variable
    force,             \* c.force
    failOnWarn,        \* c.failOnWarn
    snapShotConsumers, \* c.snapShotConsumers
    healthCheck,       \* c.healthCheck
    placementCluster,  \* c.placementCluster
    placementTags,     \* c.placementTags
    account,           \* names of the streams on the connected account, in enumeration order
    streams,           \* backup: result of mgr.Streams(); restore: result of mgr.StreamNames(nil)
    existingStreams,   \* restore: the lookup set built from streams
    stateOK,           \* backup: the streams whose LatestState() succeeded
    totalSize,         \* backup: totalSize
    totalConsumers,    \* backup: totalConsumers
    asked,             \* number of askConfirmation calls
    answer,            \* what askConfirmation returned: "none" (not called), "yes", "no", "error"
    rootState,         \* what c.backupDirectory is on disk: "absent", "dir" or "file"
    disk,              \* name -> Kinds: the entries under the root
    rootState0,        \* rootState as it was when the run started
    disk0,             \* disk as it was when the run started
    de,                \* restore: the os.ReadDir listing
    i,                 \* index of the next element of the running range loop
    errs,              \* backup: errs
    warns,             \* backup: warns
    calls,             \* the Backup / Restore Primitive invocations so far, in order
    outcomes           \* the error each of those invocations returned

vars == <<pc, result, msg, err, force, failOnWarn, snapShotConsumers, healthCheck,
          placementCluster, placementTags, account, streams, existingStreams,
          stateOK, totalSize, totalConsumers, asked, answer, rootState, disk,
          rootState0, disk0, de,
          i, errs, warns, calls, outcomes>>

flags == <<force, failOnWarn, snapShotConsumers, healthCheck, placementCluster, placementTags>>
summary == <<stateOK, totalSize, totalConsumers>>
loopv == <<i, errs, warns, calls, outcomes>>
fsv == <<rootState, disk, rootState0, disk0>>
gate == <<asked, answer>>

----------------------------------------------------------------------------
(* Helpers *)

\* The sequences of pairwise different names: what stream enumeration can return.
DistinctSeqs(N) ==
    {s \in UNION {[1..k -> N] : k \in 0..Cardinality(N)} :
        \A a, b \in DOMAIN s : a # b => s[a] # s[b]}

Range(s) == {s[k] : k \in DOMAIN s}

\* filepath.Join(c.backupDirectory, name)
Join(root, name) == <<root, name>>

\* Byte count and consumer count of a stream's latest state.
Bytes(n) == 2 * n
Consumers(n) == n - 1

\* Fault variant of SumOver: "=" in place of "+=", only the last stream counts.
SumOverLast(s, ok, kind) ==
    IF s = <<>> \/ s[Len(s)] \notin ok THEN 0
    ELSE IF kind = "bytes" THEN Bytes(s[Len(s)]) ELSE Consumers(s[Len(s)])

\* totalConsumers += state.Consumers; totalSize += state.Bytes over the streams,
\* where a failed LatestState() yields the zero state.
RECURSIVE SumOver(_, _, _)
SumOver(s, ok, kind) ==
    IF s = <<>> THEN 0
    ELSE (IF Head(s) \in ok
            THEN (IF kind = "bytes" THEN Bytes(Head(s)) ELSE Consumers(Head(s)))
            ELSE 0)
         + SumOver(Tail(s), ok, kind)

NoMsg == [text |-> "", name |-> 0]
Msg(t, n) == [text |-> t, name |-> n]

\* fisk.FatalIfError(err, ...): exits the process only when err is not nil.
FatalIfError(e) == e # "nil"

\* Fault variant of NoStreams: the empty check is missing.
NoStreamsNever(s) == FALSE

\* len(streams) == 0
NoStreams(s) == Len(s) = 0

\* Fault variant of IsMemoryStreamNotSupported: every error is taken for the warning.
IsAnyError(e) == e # "nil"

\* errors.Is(err, jsm.ErrMemoryStreamNotSupported)
IsMemoryStreamNotSupported(e) == e = "ErrMemoryStreamNotSupported"

\* Fault variant of BackupFailed: || and && read with the wrong precedence.
BackupFailedMisparsed(es, ws, fow) == (Len(es) > 0 \/ Len(ws) > 0) /\ fow

\* Fault variant of BackupFailed: a warning always fails the run.
BackupFailedAnyWarning(es, ws, fow) == Len(es) > 0 \/ Len(ws) > 0

\* len(errs) > 0 || len(warns) > 0 && c.failOnWarn
BackupFailed(es, ws, fow) == Len(es) > 0 \/ (Len(ws) > 0 /\ fow)

\* What the Backup Primitive leaves at targetDir, by the error it returns.
BackupPrimitiveLeaves(e) == IF e = "nil" THEN {"complete"} ELSE {"none", "dir"}

\* Fault variant of NeedsConfirmation: the gate is invoked whatever force is.
NeedsConfirmationAlways(f) == TRUE

\* if !c.force
NeedsConfirmation(f) == ~f

\* Fault variant of GateFailed: the error of askConfirmation is dropped.
GateFailedIgnored(e) == FALSE

\* ok, err := askConfirmation(...); if err != nil { return err }
GateFailed(e) == e # "nil"

\* How the arguments of the call at line 126 bind to the Backup Primitive's
\* parameters (streamHandle, verifyHealth, includeConsumers,
\* includeSubjectFilters, targetDir).
BackupPrimitiveParams(c) ==
    [streamHandle |-> c.stream,
     verifyHealth |-> c.arg2,
     includeConsumers |-> c.arg3,
     includeSubjectFilters |-> c.arg4,
     targetDir |-> c.arg5]

\* Fault variant of Declined: a negative answer is not acted on.
DeclinedNever(ok) == FALSE

\* if !ok { return nil }
Declined(ok) == ~ok

\* Fault variant of MkdirAllErrors: os.Mkdir, which fails on an existing path.
MkdirErrors(rs) == IF rs = "absent" THEN {"nil", "other"} ELSE {"other"}

\* The errors os.MkdirAll can return: nil for an existing directory, an error
\* for a path that is a file, either when the directory has to be created.
MkdirAllErrors(rs) ==
    IF rs = "dir" THEN {"nil"}
    ELSE IF rs = "file" THEN {"other"}
    ELSE {"nil", "other"}

\* Fault variant of MkdirFailed: the error of os.MkdirAll is dropped.
MkdirFailedIgnored(e) == FALSE

\* err = os.MkdirAll(...); if err != nil { return err }
MkdirFailed(e) == e # "nil"

\* Fault variant of IsFailure: "if" in place of "else if", a warning is a failure too.
IsFailureNoElse(e) == e # "nil"

\* else if err != nil
IsFailure(e) == ~IsMemoryStreamNotSupported(e) /\ e # "nil"

\* Fault variant of NextStream: a generic error breaks out of the loop.
NextStreamBreak(e, idx, n) == IF e = "other" THEN n + 1 ELSE idx + 1

\* The range loop over streams has no break and no return: whatever err is,
\* the next iteration takes the next stream.
NextStream(e, idx, n) == idx + 1

\* Fault variant of RestoreAborts: a failed restore is only reported.
RestoreAbortsNever(e) == FALSE

\* fisk.FatalIfError(err, "restore for %s failed", d.Name())
RestoreAborts(e) == FatalIfError(e)

Finish(r, m) ==
    /\ pc' = "done"
    /\ result' = r
    /\ msg' = m

----------------------------------------------------------------------------
(* actCmd.backupAction *)

InitBackup ==
    /\ pc = "b_setup"
    /\ result = "none"
    /\ msg = NoMsg
    /\ err = "nil"
    /\ force \in BOOLEAN
    /\ failOnWarn \in BOOLEAN
    /\ snapShotConsumers \in BOOLEAN
    /\ healthCheck \in BOOLEAN
    /\ placementCluster = ""
    /\ placementTags = <<>>
    /\ account \in DistinctSeqs(StreamNames)
    /\ streams = <<>>
    /\ existingStreams = {}
    /\ stateOK = {}
    /\ totalSize = 0
    /\ totalConsumers = 0
    /\ asked = 0
    /\ answer = "none"
    /\ rootState \in {"absent", "dir", "file"}
    /\ disk \in [StreamNames -> {"none", "complete"}]
    /\ rootState # "dir" => disk = [n \in StreamNames |-> "none"]
    /\ rootState0 = rootState
    /\ disk0 = disk
    /\ de = <<>>
    /\ i = 0
    /\ errs = <<>>
    /\ warns = <<>>
    /\ calls = <<>>
    /\ outcomes = <<>>

\* prepareHelper, then mgr.Streams() and the empty check
BackupEnumerate ==
    /\ pc = "b_setup"
    /\ \E setup \in {"nil", "other"}, e \in {"nil", "other"} :
        IF FatalIfError(setup)
        THEN /\ Finish("fatal", Msg("setup failed", 0))
             /\ UNCHANGED <<err, streams>>
        ELSE /\ err' = e
             /\ IF e # "nil"
                THEN /\ Finish("error", Msg("streams", 0))
                     /\ UNCHANGED streams
                ELSE /\ streams' = account
                     /\ IF NoStreams(account)
                        THEN Finish("error", Msg("no streams found", 0))
                        ELSE /\ pc' = "b_summary"
                             /\ UNCHANGED <<result, msg>>
    /\ UNCHANGED <<flags, account, existingStreams, summary, gate, fsv, de, loopv>>

\* the LatestState loop and the printed summary
BackupSummarise ==
    /\ pc = "b_summary"
    /\ \E ok \in SUBSET Range(streams) :
        /\ stateOK' = ok
        /\ totalSize' = SumOver(streams, ok, "bytes")
        /\ totalConsumers' = SumOver(streams, ok, "consumers")
    /\ pc' = "b_confirm"
    /\ UNCHANGED <<result, msg, err, flags, account, streams, existingStreams, gate,
                   fsv, de, loopv>>

\* if !c.force { askConfirmation ... }
BackupConfirm ==
    /\ pc = "b_confirm"
    /\ IF NeedsConfirmation(force)
       THEN /\ asked' = asked + 1
            /\ \E e \in {"nil", "other"}, ok \in BOOLEAN :
                /\ answer' = IF e # "nil" THEN "error" ELSE IF ok THEN "yes" ELSE "no"
                /\ IF GateFailed(e)
                   THEN Finish("error", Msg("confirmation", 0))
                   ELSE IF Declined(ok)
                   THEN Finish("ok", NoMsg)
                   ELSE /\ pc' = "b_mkdir"
                        /\ UNCHANGED <<result, msg>>
       ELSE /\ pc' = "b_mkdir"
            /\ UNCHANGED <<gate, result, msg>>
    /\ UNCHANGED <<err, flags, account, streams, existingStreams, summary, fsv, de, loopv>>

\* os.MkdirAll(c.backupDirectory, 0700)
BackupMkdirAll ==
    /\ pc = "b_mkdir"
    /\ \E e \in MkdirAllErrors(rootState) :
        /\ err' = e
        /\ rootState' = IF e = "nil" THEN "dir" ELSE rootState
        /\ IF MkdirFailed(e)
           THEN /\ Finish("error", Msg("mkdir", 0))
                /\ UNCHANGED i
           ELSE /\ pc' = "b_loop"
                /\ i' = 1
                /\ UNCHANGED <<result, msg>>
    /\ UNCHANGED <<flags, account, streams, existingStreams, summary, gate, disk, rootState0, disk0,
                   de, errs, warns, calls, outcomes>>

\* one iteration of for _, s := range streams { backupStream(...) ... }
BackupStream ==
    /\ pc = "b_loop"
    /\ i <= Len(streams)
    /\ LET s == streams[i] IN
       \E e \in Errors, left \in Kinds :
        /\ left \in BackupPrimitiveLeaves(e)
        /\ calls' = Append(calls, [stream |-> s, arg2 |-> FALSE, arg3 |-> snapShotConsumers,
                                   arg4 |-> healthCheck, arg5 |-> Join(Root, s)])
        /\ outcomes' = Append(outcomes, e)
        /\ disk' = [disk EXCEPT ![s] = left]
        /\ err' = e
        /\ warns' = IF IsMemoryStreamNotSupported(e)
                    THEN Append(warns, [name |-> s, err |-> e]) ELSE warns
        /\ errs' = IF IsFailure(e)
                   THEN Append(errs, [name |-> s, err |-> e]) ELSE errs
        /\ i' = NextStream(e, i, Len(streams))
    /\ UNCHANGED <<pc, result, msg, flags, account, streams, existingStreams, summary,
                   gate, rootState, rootState0, disk0, de>>

\* the warning and failure reports and the final return
BackupFinish ==
    /\ pc = "b_loop"
    /\ i > Len(streams)
    /\ IF BackupFailed(errs, warns, failOnWarn)
       THEN Finish("error", Msg("backup failed", 0))
       ELSE Finish("ok", NoMsg)
    /\ UNCHANGED <<err, flags, account, streams, existingStreams, summary, gate, fsv,
                   de, loopv>>

NextBackup ==
    \/ BackupEnumerate
    \/ BackupSummarise
    \/ BackupConfirm
    \/ BackupMkdirAll
    \/ BackupStream
    \/ BackupFinish

BackupSpec == InitBackup /\ [][NextBackup]_vars

----------------------------------------------------------------------------
(* actCmd.restoreAction *)

\* The names present under the root, in increasing order, as os.ReadDir returns them.
RECURSIVE SortedFrom(_, _)
SortedFrom(n, S) ==
    IF n > MaxEntries THEN <<>>
    ELSE IF n \in S THEN <<n>> \o SortedFrom(n + 1, S)
    ELSE SortedFrom(n + 1, S)

\* os.ReadDir(c.backupDirectory): one DirEntry per name present, sorted by filename.
ReadDir(d) ==
    LET present == {n \in DOMAIN d : d[n] # "none"}
        names == SortedFrom(1, present)
    IN [k \in 1..Len(names) |-> [name |-> names[k], kind |-> d[names[k]]]]

\* d.IsDir(): the entry's own type, which for a symbolic link is not a directory.
IsDir(d) == d.kind \in {"dir", "complete"}

\* Fault variant of StatManifest: the manifest check is missing.
StatManifestAlwaysOK(d) == "nil"

\* os.Stat(filepath.Join(c.backupDirectory, d.Name(), "backup.json")); Stat follows links.
StatManifest(d) == IF d.kind \in {"complete", "link"} THEN "nil" ELSE "other"

\* Fault variant of Exists: the collision check is missing.
ExistsNever(name, existing) == FALSE

\* _, ok := existingStreams[d.Name()]
Exists(name, existing) == name \in existing

\* Fault variant of RestoreTarget: the entry name is not joined to the root.
RestoreTargetRoot(d) == <<Root>>

\* s.backupDirectory = filepath.Join(c.backupDirectory, d.Name())
RestoreTarget(d) == Join(Root, d.name)

\* The errors the Restore Primitive can return for an artifact of the given name:
\* it fails when a stream of that name exists, and may fail otherwise.
RestorePrimitiveErrors(name, acct) ==
    IF name \in Range(acct) THEN {"other"} ELSE {"nil", "other"}

InitRestore ==
    /\ pc = "r_setup"
    /\ result = "none"
    /\ msg = NoMsg
    /\ err = "nil"
    /\ force = FALSE
    /\ failOnWarn = FALSE
    /\ snapShotConsumers = FALSE
    /\ healthCheck = FALSE
    /\ placementCluster \in {"", "c1"}
    /\ placementTags \in {<<>>, <<"t1">>}
    /\ account \in DistinctSeqs(EntryNames)
    /\ streams = <<>>
    /\ existingStreams = {}
    /\ stateOK = {}
    /\ totalSize = 0
    /\ totalConsumers = 0
    /\ asked = 0
    /\ answer = "none"
    /\ rootState = "dir"
    /\ disk \in [EntryNames -> Kinds]
    /\ rootState0 = rootState
    /\ disk0 = disk
    /\ de = <<>>
    /\ i = 0
    /\ errs = <<>>
    /\ warns = <<>>
    /\ calls = <<>>
    /\ outcomes = <<>>

\* prepareHelper, mgr.StreamNames(nil) and the existingStreams set
RestoreEnumerate ==
    /\ pc = "r_setup"
    /\ \E setup \in {"nil", "other"}, e \in {"nil", "other"} :
        IF FatalIfError(setup)
        THEN /\ Finish("fatal", Msg("setup failed", 0))
             /\ UNCHANGED <<err, streams, existingStreams>>
        ELSE /\ err' = e
             /\ IF e # "nil"
                THEN /\ Finish("error", Msg("stream names", 0))
                     /\ UNCHANGED <<streams, existingStreams>>
                ELSE /\ streams' = account
                     /\ existingStreams' = Range(account)
                     /\ pc' = "r_readdir"
                     /\ UNCHANGED <<result, msg>>
    /\ UNCHANGED <<flags, account, summary, gate, fsv, de, loopv>>

\* de, err := os.ReadDir(c.backupDirectory); fisk.FatalIfError(err, "setup failed")
RestoreReadDir ==
    /\ pc = "r_readdir"
    /\ \E e \in {"nil", "other"} :
        /\ err' = e
        /\ IF FatalIfError(e)
           THEN /\ Finish("fatal", Msg("setup failed", 0))
                /\ UNCHANGED <<de, i>>
           ELSE /\ de' = ReadDir(disk)
                /\ i' = 1
                /\ pc' = "r_validate"
                /\ UNCHANGED <<result, msg>>
    /\ UNCHANGED <<flags, account, streams, existingStreams, summary, gate, fsv,
                   errs, warns, calls, outcomes>>

\* one iteration of the validation loop over de
RestoreValidateEntry ==
    /\ pc = "r_validate"
    /\ i <= Len(de)
    /\ LET d == de[i] IN
       IF ~IsDir(d) /\ FatalIfError(err)
       THEN /\ Finish("fatal", Msg("expected a directory", d.name))
            /\ UNCHANGED i
       ELSE IF Exists(d.name, existingStreams)
       THEN /\ Finish("fatal", Msg("stream exists already", d.name))
            /\ UNCHANGED i
       ELSE IF FatalIfError(StatManifest(d))
       THEN /\ Finish("fatal", Msg("expected backup.json", d.name))
            /\ UNCHANGED i
       ELSE /\ i' = i + 1
            /\ UNCHANGED <<pc, result, msg>>
    /\ UNCHANGED <<err, flags, account, streams, existingStreams, summary, gate, fsv, de,
                   errs, warns, calls, outcomes>>

\* the validation loop is over: print the header and build the streamCmd
RestoreBegin ==
    /\ pc = "r_validate"
    /\ i > Len(de)
    /\ pc' = "r_loop"
    /\ i' = 1
    /\ UNCHANGED <<result, msg, err, flags, account, streams, existingStreams, summary,
                   gate, fsv, de, errs, warns, calls, outcomes>>

\* one iteration of the restore loop over de
RestoreStream ==
    /\ pc = "r_loop"
    /\ i <= Len(de)
    /\ LET d == de[i] IN
       \E e \in RestorePrimitiveErrors(d.name, account) :
        /\ calls' = Append(calls, [backupDirectory |-> RestoreTarget(d),
                                   placementCluster |-> placementCluster,
                                   placementTags |-> placementTags])
        /\ outcomes' = Append(outcomes, e)
        /\ account' = IF e = "nil" THEN Append(account, d.name) ELSE account
        /\ IF RestoreAborts(e)
           THEN /\ Finish("fatal", Msg("restore failed", d.name))
                /\ UNCHANGED i
           ELSE /\ i' = i + 1
                /\ UNCHANGED <<pc, result, msg>>
    /\ UNCHANGED <<err, flags, streams, existingStreams, summary, gate, fsv, de, errs, warns>>

\* Fault variant of RestoreFinish: an empty listing is an error, as in backup.
RestoreFinishEmptyIsError ==
    /\ pc = "r_loop"
    /\ i > Len(de)
    /\ IF Len(de) = 0
       THEN Finish("error", Msg("no streams found", 0))
       ELSE Finish("ok", NoMsg)
    /\ UNCHANGED <<err, flags, account, streams, existingStreams, summary, gate, fsv, de,
                   loopv>>

\* the restore loop is over: return nil
RestoreFinish ==
    /\ pc = "r_loop"
    /\ i > Len(de)
    /\ Finish("ok", NoMsg)
    /\ UNCHANGED <<err, flags, account, streams, existingStreams, summary, gate, fsv, de,
                   loopv>>

NextRestore ==
    \/ RestoreEnumerate
    \/ RestoreReadDir
    \/ RestoreValidateEntry
    \/ RestoreBegin
    \/ RestoreStream
    \/ RestoreFinish

RestoreSpec == InitRestore /\ [][NextRestore]_vars

----------------------------------------------------------------------------
(* Properties of actCmd.backupAction, checked under BackupSpec *)

Memory == "ErrMemoryStreamNotSupported"

\* The run got past os.MkdirAll into the per-stream loop.
StreamPhase == i >= 1

SomeOutcome(e) == \E k \in DOMAIN outcomes : outcomes[k] = e

\* C1: a run that reached the per-stream phase returns failure exactly when a
\* stream produced a Failure, or a stream produced a Warning and failOnWarning
\* is set; otherwise it returns success.
C1_FinalResult ==
    (pc = "done" /\ StreamPhase) =>
        /\ result \in {"ok", "error"}
        /\ result = "error" <=> (SomeOutcome("other") \/ (SomeOutcome(Memory) /\ failOnWarn))
        /\ result = "error" => msg = Msg("backup failed", 0)

C1_Witness ==
    /\ pc = "done" /\ StreamPhase
    /\ Len(outcomes) = 2
    /\ outcomes[1] = "nil" /\ outcomes[2] = Memory
    /\ failOnWarn
    /\ result = "error"

\* C2: in the per-stream phase the Backup Primitive is invoked once per
\* enumerated stream, in enumeration order, whatever earlier streams returned;
\* a generic error makes the run report failure, and every stream whose call
\* succeeded has its artifact.
C2_EveryStreamBackedUp ==
    StreamPhase =>
        /\ Len(calls) = i - 1
        /\ Len(outcomes) = Len(calls)
        /\ \A k \in DOMAIN calls : calls[k].stream = streams[k]
        /\ pc = "done" =>
            /\ Len(calls) = Len(streams)
            /\ SomeOutcome("other") => result = "error"
            /\ \A k \in DOMAIN outcomes :
                 outcomes[k] = "nil" => disk[streams[k]] = "complete"

C2_Witness ==
    /\ pc = "done" /\ StreamPhase
    /\ Len(calls) = 2
    /\ outcomes[1] = "other" /\ outcomes[2] = "nil"
    /\ disk[streams[2]] = "complete"
    /\ result = "error"

\* C7 as stated: a run over a non-empty stream set that went through the
\* per-stream phase and returns success has an artifact directory with a
\* manifest for every enumerated stream.
C7_AllArtifactsOnSuccess ==
    (pc = "done" /\ StreamPhase /\ result = "ok") =>
        \A k \in DOMAIN streams : disk[streams[k]] = "complete"

\* C7 amended: such a run has an artifact directory with a manifest for every
\* enumerated stream whose call did not return the unsupported-storage-class
\* condition, none for a stream whose call did, and has touched no other name
\* under the root.
C7_ArtifactsExceptWarned ==
    (pc = "done" /\ StreamPhase /\ result = "ok") =>
        /\ Len(outcomes) = Len(streams)
        /\ \A k \in DOMAIN streams :
             /\ outcomes[k] # Memory => disk[streams[k]] = "complete"
             /\ outcomes[k] = Memory => disk[streams[k]] # "complete"
        /\ \A n \in DOMAIN disk : n \notin Range(streams) => disk[n] = disk0[n]

C7_Witness ==
    /\ pc = "done" /\ StreamPhase /\ result = "ok"
    /\ Len(streams) = 2
    /\ outcomes[1] = Memory /\ outcomes[2] = "nil"
    /\ disk[streams[1]] # "complete" /\ disk[streams[2]] = "complete"

\* C8 as stated: when a stream yields the unsupported-storage-class condition
\* and failOnWarning is unset, the stream is a Warning and not a Failure, the
\* run succeeds, and the stream has no artifact directory.
C8_WarningRunSucceeds ==
    (pc = "done" /\ StreamPhase /\ ~failOnWarn) =>
        \A k \in DOMAIN outcomes :
            outcomes[k] = Memory =>
                /\ result = "ok"
                /\ \E w \in DOMAIN warns : warns[w].name = streams[k]
                /\ \A f \in DOMAIN errs : errs[f].name # streams[k]
                /\ disk[streams[k]] # "complete"

\* C8 amended: such a stream is a Warning and not a Failure and has no artifact
\* directory; the run succeeds provided no stream produced a Failure.
C8_WarningNotFailure ==
    (pc = "done" /\ StreamPhase /\ ~failOnWarn) =>
        \A k \in DOMAIN outcomes :
            outcomes[k] = Memory =>
                /\ ~SomeOutcome("other") => result = "ok"
                /\ \E w \in DOMAIN warns : warns[w].name = streams[k]
                /\ \A f \in DOMAIN errs : errs[f].name # streams[k]
                /\ disk[streams[k]] # "complete"

C8_Witness ==
    /\ pc = "done" /\ StreamPhase /\ ~failOnWarn
    /\ Len(outcomes) = 2
    /\ outcomes[1] = "nil" /\ outcomes[2] = Memory
    /\ rootState0 = "absent"
    /\ disk[streams[1]] = "complete" /\ disk[streams[2]] # "complete"
    /\ result = "ok"

\* C9: a run whose enumeration returns zero streams aborts with "no streams
\* found" whatever force and failOnWarning are, without asking for
\* confirmation, invoking the Backup Primitive or creating a directory.
C9_NoStreamsAborts ==
    account = <<>> =>
        /\ pc \in {"b_setup", "done"}
        /\ asked = 0
        /\ calls = <<>>
        /\ rootState = rootState0 /\ disk = disk0
        /\ pc = "done" =>
            /\ result \in {"fatal", "error"}
            /\ (result = "error" /\ err = "nil") => msg = Msg("no streams found", 0)

C9_Witness ==
    /\ account = <<>>
    /\ pc = "done"
    /\ force /\ failOnWarn
    /\ rootState = "absent"
    /\ msg = Msg("no streams found", 0)

\* C10: with force unset and a negative answer from the Confirmation Gate the
\* run ends with success, the root directory is not created and the Backup
\* Primitive is never invoked.
C10_DeclinedNoEffects ==
    answer = "no" =>
        /\ ~force
        /\ pc = "done" /\ result = "ok" /\ msg = NoMsg
        /\ rootState = rootState0 /\ disk = disk0
        /\ calls = <<>>

C10_Witness ==
    /\ answer = "no"
    /\ pc = "done" /\ result = "ok"
    /\ rootState = "absent"
    /\ Len(streams) = 2

----------------------------------------------------------------------------
(* Properties of actCmd.restoreAction, checked under RestoreSpec *)

\* The primitive has been invoked for no entry and the restore loop was not entered.
NothingRestored == calls = <<>> /\ pc # "r_loop" /\ account = streams

\* C3: if any listed entry has the name of a stream that existed on the target
\* at enumeration time, the run aborts with zero Restore Primitive
\* invocations, wherever that entry is in the listing.
C3_CollisionAborts ==
    (\E k \in DOMAIN de : de[k].name \in existingStreams) =>
        /\ NothingRestored
        /\ pc = "done" => result = "fatal"

C3_Witness ==
    /\ pc = "done" /\ result = "fatal"
    /\ Len(de) = 3
    /\ de[1].kind = "complete" /\ de[2].kind = "complete" /\ de[3].kind = "complete"
    /\ existingStreams = {de[3].name}
    /\ msg = Msg("stream exists already", de[3].name)
    /\ calls = <<>>

\* C4: when the Restore Primitive fails for the entry at position k, the run
\* aborts with a failure naming that entry, no later entry is restored, and
\* the entries before k have each been restored once, in order.
C4_FirstFailureStops ==
    /\ Len(outcomes) = Len(calls)
    /\ Len(calls) <= Len(de)
    /\ \A j \in DOMAIN calls : calls[j].backupDirectory = Join(Root, de[j].name)
    /\ \A k \in DOMAIN outcomes :
         outcomes[k] = "other" =>
            /\ pc = "done" /\ result = "fatal"
            /\ msg = Msg("restore failed", de[k].name)
            /\ Len(calls) = k
            /\ \A j \in 1..(k - 1) : outcomes[j] = "nil"

C4_Witness ==
    /\ pc = "done" /\ result = "fatal"
    /\ Len(de) = 3
    /\ Len(calls) = 2
    /\ outcomes = <<"nil", "other">>
    /\ msg = Msg("restore failed", de[2].name)

\* C5: if any artifact directory under the source root lacks backup.json, the
\* run aborts before the Restore Primitive is invoked for any entry.
C5_MissingManifestAborts ==
    (\E k \in DOMAIN de : de[k].kind = "dir") =>
        /\ NothingRestored
        /\ pc = "done" => result = "fatal"

C5_Witness ==
    /\ pc = "done" /\ result = "fatal"
    /\ Len(de) = 3
    /\ de[1].kind = "complete" /\ de[2].kind = "dir" /\ de[3].kind = "complete"
    /\ existingStreams = {}
    /\ msg = Msg("expected backup.json", de[2].name)
    /\ calls = <<>>

\* C6: if any listed entry is not a directory, the run ends in a hard
\* validation failure and the Restore Primitive is never invoked.
C6_NonDirectoryAborts ==
    (\E k \in DOMAIN de : ~IsDir(de[k])) =>
        /\ NothingRestored
        /\ pc = "done" => result = "fatal"

----------------------------------------------------------------------------
(* Further properties of actCmd.backupAction, checked under BackupSpec *)

\* The run enumerated at least one stream and got past the Confirmation Gate,
\* by force or by an affirmative answer.
PastGate ==
    /\ streams # <<>>
    /\ pc \in {"b_loop", "done"}
    /\ force \/ answer = "yes"

\* C11: with force unset, when the Confirmation Gate fails to produce a
\* decision the run aborts and returns that failure; no directory is created
\* and the Backup Primitive is never invoked.
C11_GateFailureAborts ==
    answer = "error" =>
        /\ ~force
        /\ pc = "done" /\ result = "error" /\ msg = Msg("confirmation", 0)
        /\ rootState = rootState0 /\ disk = disk0
        /\ calls = <<>>

C11_Witness ==
    /\ answer = "error"
    /\ pc = "done" /\ result = "error"
    /\ rootState = "absent"
    /\ Len(streams) = 2

\* C12: with force set and at least one stream the Confirmation Gate is never
\* invoked, and the run goes on to root creation and the per-stream backups:
\* it ends only by a failed root creation or after the per-stream loop.
C12_ForceBypassesGate ==
    force =>
        /\ asked = 0 /\ answer = "none"
        /\ (pc = "done" /\ streams # <<>>) =>
            \/ result = "error" /\ msg = Msg("mkdir", 0) /\ rootState # "dir"
            \/ /\ StreamPhase /\ rootState = "dir"
               /\ Len(calls) = Len(streams)
               /\ result \in {"ok", "error"}

C12_Witness ==
    /\ force /\ asked = 0
    /\ pc = "done" /\ result = "ok"
    /\ rootState0 = "absent" /\ rootState = "dir"
    /\ Len(calls) = 2

\* C13: if creation of the root directory fails, the run aborts with that
\* error: the Backup Primitive is invoked for no stream and no warnings or
\* failures are collected.
C13_MkdirFailureAborts ==
    rootState # "dir" =>
        /\ calls = <<>> /\ warns = <<>> /\ errs = <<>>
        /\ disk = disk0
        /\ pc # "b_loop"
        /\ PastGate => (result = "error" /\ msg = Msg("mkdir", 0) /\ err = "other")

C13_Witness ==
    /\ PastGate /\ pc = "done"
    /\ rootState0 = "absent" /\ rootState = "absent"
    /\ Len(streams) = 2
    /\ msg = Msg("mkdir", 0)
    /\ calls = <<>>

\* C14: a run into a root that already exists as a directory, empty or not,
\* does not fail in directory creation and reaches the per-stream phase.
C14_ExistingRootIsFine ==
    (rootState0 = "dir" /\ PastGate) =>
        /\ StreamPhase
        /\ rootState = "dir"
        /\ msg # Msg("mkdir", 0)
        /\ pc = "done" => Len(calls) = Len(streams)

C14_Witness ==
    /\ rootState0 = "dir" /\ PastGate /\ pc = "done"
    /\ Len(streams) = 2
    /\ disk0[streams[1]] = "complete" /\ disk0[streams[2]] = "complete"
    /\ outcomes = <<"nil", "nil">>
    /\ result = "ok"

\* C16 as stated: every Backup Primitive call has targetDir root/streamName,
\* includeConsumers equal to the run's consumers flag and verifyHealth equal
\* to the run's healthCheck flag.
C16_ArgumentsMatchFlags ==
    \A k \in DOMAIN calls :
        LET a == BackupPrimitiveParams(calls[k]) IN
        /\ a.targetDir = Join(Root, a.streamHandle)
        /\ a.includeConsumers = snapShotConsumers
        /\ a.verifyHealth = healthCheck

\* The names of ss whose outcome in os is in the set es, in the order of ss.
RECURSIVE NamesWith(_, _, _)
NamesWith(ss, os, es) ==
    IF ss = <<>> \/ os = <<>> THEN <<>>
    ELSE (IF Head(os) \in es THEN <<Head(ss)>> ELSE <<>>)
         \o NamesWith(Tail(ss), Tail(os), es)

\* The names a sequence of outcome records lists, in order.
NamesOf(rs) == [k \in DOMAIN rs |-> rs[k].name]

\* C17: warns lists, once each and in enumeration order, exactly the streams
\* whose call returned the unsupported-storage-class error, errs those whose
\* call returned another error; a stream that succeeded is in neither, and no
\* stream is in both.
C17_WarnsAndErrsPartition ==
    StreamPhase =>
        /\ NamesOf(warns) = NamesWith(streams, outcomes, {Memory})
        /\ NamesOf(errs) = NamesWith(streams, outcomes, Errors \ {"nil", Memory})
        /\ Range(NamesOf(warns)) \cap Range(NamesOf(errs)) = {}
        /\ \A w \in DOMAIN warns : warns[w].err = Memory
        /\ \A f \in DOMAIN errs : errs[f].err = "other"

C17_Witness ==
    /\ pc = "done" /\ StreamPhase
    /\ streams = <<2, 1>>
    /\ outcomes = <<Memory, Memory>>
    /\ NamesOf(warns) = <<2, 1>>
    /\ errs = <<>>

\* The sum of the byte counts, or of the consumer counts, of a set of streams.
RECURSIVE SetSum(_, _)
SetSum(S, kind) ==
    IF S = {} THEN 0
    ELSE LET n == CHOOSE x \in S : TRUE
         IN (IF kind = "bytes" THEN Bytes(n) ELSE Consumers(n)) + SetSum(S \ {n}, kind)

\* C18: the totals shown before confirmation are the sums of the byte counts
\* and consumer counts of the streams whose state query succeeded; a stream
\* whose query failed adds nothing, does not abort the run and is still
\* backed up in the per-stream phase.
C18_TotalsBestEffort ==
    (streams # <<>> /\ pc # "b_summary") =>
        /\ stateOK \subseteq Range(streams)
        /\ totalSize = SetSum(stateOK, "bytes")
        /\ totalConsumers = SetSum(stateOK, "consumers")
        /\ pc = "done" => (force \/ asked = 1)
        /\ (pc = "done" /\ StreamPhase) =>
            \A n \in Range(streams) : \E k \in DOMAIN calls : calls[k].stream = n

C18_Witness ==
    /\ pc = "done" /\ StreamPhase
    /\ streams = <<1, 2>>
    /\ stateOK = {2}
    /\ totalSize = Bytes(2) /\ totalConsumers = Consumers(2)
    /\ Len(calls) = 2 /\ calls[1].stream = 1

----------------------------------------------------------------------------
(* Further properties of actCmd.restoreAction, checked under RestoreSpec *)

\* The checks the validation loop makes pass for the entry.
PassesValidation(d) == d.name \notin existingStreams /\ d.kind \in {"complete", "link"}

\* C15: every entry has been through validation before the first Restore
\* Primitive invocation; when every entry passes and every restore succeeds,
\* the primitive is invoked once per listed entry, in listing order, with
\* path root/entryName and the run's placement cluster and tags, and the run
\* succeeds.
C15_ValidateThenRestoreInOrder ==
    /\ pc = "r_validate" => calls = <<>>
    /\ calls # <<>> => \A k \in DOMAIN de : PassesValidation(de[k])
    /\ Len(calls) <= Len(de)
    /\ \A j \in DOMAIN calls :
         calls[j] = [backupDirectory |-> <<Root, de[j].name>>,
                     placementCluster |-> placementCluster,
                     placementTags |-> placementTags]
    /\ (/\ pc = "done" /\ de # <<>>
        /\ \A k \in DOMAIN de : PassesValidation(de[k])
        /\ ~SomeOutcome("other")) =>
            /\ result = "ok"
            /\ Len(calls) = Len(de)

C15_Witness ==
    /\ pc = "done" /\ result = "ok"
    /\ Len(de) = 3 /\ Len(calls) = 3
    /\ placementCluster = "c1" /\ placementTags = <<"t1">>
    /\ calls[3].backupDirectory = <<Root, 3>>
    /\ existingStreams = {}

\* The source root holds no entry.
EmptyRoot == \A n \in DOMAIN disk : disk[n] = "none"

\* C19: a restore run over a source root with zero entries passes validation
\* vacuously and returns success with zero Restore Primitive invocations,
\* leaving the account's streams as they were.
C19_EmptyRootSucceeds ==
    EmptyRoot =>
        /\ de = <<>> /\ calls = <<>>
        /\ pc \notin {"r_setup"} => (result # "none" \/ account = streams)
        /\ pc = "done" =>
            \/ result = "fatal" /\ msg = Msg("setup failed", 0)
            \/ result = "error" /\ msg = Msg("stream names", 0) /\ err = "other"
            \/ result = "ok" /\ account = streams /\ Range(account) = existingStreams

C19_Witness ==
    /\ EmptyRoot
    /\ pc = "done" /\ result = "ok"
    /\ Len(account) = 2
    /\ calls = <<>>

====
